---- MODULE Spec2Model ----
(***************************************************************************)
(* State-machine model of the filefeed-react workbook store                *)
(* (src/src/stores/workbookStore.ts) and of the row pipeline it drives     *)
(* (src/src/utils/backendClient.ts: transforms, coercion, validation,      *)
(* auto-mapping).                                                          *)
(*                                                                         *)
(* JavaScript values are modelled as records [k, s]: k is the runtime type *)
(* ("str", "num", "bool", "null", "undef") and s is String(value) as a     *)
(* sequence of one-character strings, so that trim, toLowerCase, Number()  *)
(* and the edit distance are computed, not assumed.                        *)
(***************************************************************************)
EXTENDS Integers, Sequences, FiniteSets, TLC

VARIABLES
  config,             \* WorkbookState.config
  currentSheet,       \* WorkbookState.currentSheet (a slug, "" initially)
  importedData,       \* WorkbookState.importedData ([present |-> FALSE] is null)
  mappingState,       \* legacy flat map, as the insertion-ordered entries of the object
  pipelineMappings,   \* canonical mappings ([defined |-> FALSE] is undefined)
  processedData,      \* DataRow[]
  validationErrors,   \* ValidationError[]
  isLoading,
  processingProgress, \* a fraction <<num, den>> in lowest terms
  transformRegistry,
  validationRegistry,
  processingRunId,    \* the module-level run counter
  runs,               \* the processDataChunked calls suspended at their await
  lastCall,           \* history: the store action called last, with its list argument
  offload             \* the call of offloadAndProcessFile, at its polling loop

vars == <<config, currentSheet, importedData, mappingState, pipelineMappings,
          processedData, validationErrors, isLoading, processingProgress,
          transformRegistry, validationRegistry, processingRunId, runs, lastCall,
          offload>>

----------------------------------------------------------------------------
(* Bounds of the model *)

\* cap on the run counter: actions that bump it are disabled at the cap
MaxRunId == 3
\* processDataChunked calls that may be suspended at the same time
MaxRuns == 2
\* longest list handed to setFieldMappings
MaxLen == 2
\* rows in the review table, rows added by addRow included
MaxRows == 5

----------------------------------------------------------------------------
(* Tokens *)

NULL == "null"
NoTransform == "undefined"
NoRegistry == "undefined"

Min2(a, b) == IF a < b THEN a ELSE b
Max2(a, b) == IF a > b THEN a ELSE b

SeqToSet(s) == {s[i] : i \in 1..Len(s)}

\* Array.prototype.flatMap over a sequence of sequences
RECURSIVE Flatten(_)
Flatten(ss) == IF ss = <<>> THEN <<>> ELSE Head(ss) \o Flatten(Tail(ss))

----------------------------------------------------------------------------
(* JavaScript values *)

StrV(chars) == [k |-> "str", s |-> chars]
NumV(chars) == [k |-> "num", s |-> chars]
BoolV(b) == [k |-> "bool", s |-> IF b THEN <<"t","r","u","e">> ELSE <<"f","a","l","s","e">>]
NullV == [k |-> "null", s |-> <<"n","u","l","l">>]
UndefV == [k |-> "undef", s |-> <<"u","n","d","e","f","i","n","e","d">>]
NaNChars == <<"N","a","N">>

\* value === null || value === undefined || value === ""
IsEmptyVal(v) == v.k \in {"null", "undef"} \/ (v.k = "str" /\ v.s = <<>>)

\* v == null (null or undefined)
IsNullish(v) == v.k \in {"null", "undef"}

Digits == {"0","1","2","3","4","5","6","7","8","9"}

LowerC(c) ==
  CASE c = "A" -> "a" [] c = "B" -> "b" [] c = "D" -> "d" [] c = "E" -> "e"
    [] c = "I" -> "i" [] c = "M" -> "m" [] c = "N" -> "n" [] c = "O" -> "o"
    [] c = "T" -> "t" [] c = "Y" -> "y" [] c = "Z" -> "z" [] c = "F" -> "f"
    [] c = "L" -> "l" [] OTHER -> c

UpperC(c) ==
  CASE c = "a" -> "A" [] c = "b" -> "B" [] c = "d" -> "D" [] c = "e" -> "E"
    [] c = "i" -> "I" [] c = "m" -> "M" [] c = "n" -> "N" [] c = "o" -> "O"
    [] c = "t" -> "T" [] c = "y" -> "Y" [] c = "z" -> "Z" [] c = "f" -> "F"
    [] c = "l" -> "L" [] OTHER -> c

ToLower(chars) == [i \in 1..Len(chars) |-> LowerC(chars[i])]
ToUpper(chars) == [i \in 1..Len(chars) |-> UpperC(chars[i])]

RECURSIVE TrimLeft(_)
TrimLeft(chars) ==
  IF chars # <<>> /\ Head(chars) = " " THEN TrimLeft(Tail(chars)) ELSE chars

RECURSIVE TrimRight(_)
TrimRight(chars) ==
  IF chars # <<>> /\ chars[Len(chars)] = " "
  THEN TrimRight(SubSeq(chars, 1, Len(chars) - 1)) ELSE chars

\* String.prototype.trim
Trim(chars) == TrimRight(TrimLeft(chars))

RECURSIVE StripZeros(_)
StripZeros(chars) ==
  IF Len(chars) > 1 /\ Head(chars) = "0" THEN StripZeros(Tail(chars)) ELSE chars

\* String(Number(v)): decimal digit strings parse (surrounding blanks ignored, the
\* blank string is 0), true/false are 1/0, null is 0, everything else is NaN
NumberChars(v) ==
  LET t == Trim(v.s) IN
  CASE v.k = "num" -> v.s
    [] v.k = "bool" -> IF v.s = <<"t","r","u","e">> THEN <<"1">> ELSE <<"0">>
    [] v.k = "null" -> <<"0">>
    [] v.k = "undef" -> NaNChars
    [] OTHER -> IF t = <<>> THEN <<"0">>
                ELSE IF \A i \in 1..Len(t) : t[i] \in Digits THEN StripZeros(t)
                ELSE NaNChars

\* isNaN(Number(v))
IsNaNNumber(v) == NumberChars(v) = NaNChars

----------------------------------------------------------------------------
(* Transform registry: defaultTransforms and applyNamedTransform *)

\* The registries a host can install. "default" is defaultTransforms; "host" is a
\* consumer registry whose trim throws and which adds a transform named shout.
Registries == {"default", "host"}

RegistryHas(registry, name) ==
  CASE registry = "default" -> name \in {"trim", "toUpperCase", "toLowerCase"}
    [] registry = "host" -> name \in {"trim", "shout"}
    [] OTHER -> FALSE

\* registry[name](v), as [threw, value]
RegistryCall(registry, name, v) ==
  CASE registry = "host" /\ name = "trim" -> [threw |-> TRUE, value |-> v]
    [] name = "trim" ->
         [threw |-> FALSE, value |-> IF IsNullish(v) THEN v ELSE StrV(Trim(v.s))]
    [] name \in {"toUpperCase", "shout"} ->
         [threw |-> FALSE, value |-> IF IsNullish(v) THEN v ELSE StrV(ToUpper(v.s))]
    [] name = "toLowerCase" ->
         [threw |-> FALSE, value |-> IF IsNullish(v) THEN v ELSE StrV(ToLower(v.s))]
    [] OTHER -> [threw |-> FALSE, value |-> v]

\* state.transformRegistry || defaultTransforms
EffectiveRegistry(registry) == IF registry = NoRegistry THEN "default" ELSE registry

applyNamedTransform(value, transformName, registry) ==
  IF transformName = NoTransform THEN value
  ELSE IF ~RegistryHas(registry, transformName) THEN value
  ELSE LET r == RegistryCall(registry, transformName, value)
       IN IF r.threw THEN value ELSE r.value

----------------------------------------------------------------------------
(* Type coercion *)

transformValue(value, fieldType) ==
  IF IsEmptyVal(value) THEN value
  ELSE CASE fieldType = "string" -> StrV(Trim(value.s))
         [] fieldType = "number" -> NumV(NumberChars(value))
         [] fieldType = "boolean" ->
              BoolV(ToLower(value.s) \in {<<"t","r","u","e">>, <<"1">>, <<"y","e","s">>})
         [] OTHER -> value

----------------------------------------------------------------------------
(* Validation *)

MkError(rowIndex, fieldKey, message) ==
  [row |-> rowIndex, field |-> fieldKey, message |-> message, severity |-> "error"]

\* The validation registries a host can install, by what their validator "noBob"
\* does on the value bob: "strict" returns false, "warn" returns a warning
\* object, "throwing" throws. On every other value it returns true.
ValidationRegistries == {"strict", "warn", "throwing"}

BobChars == <<"b","o","b">>

\* registry[name](value, field, rowIndex, rowData, args): "ok", "false", "warning", "throw"
CustomValidator(registry, name, value) ==
  IF name # "noBob" \/ value.s # BobChars THEN "ok"
  ELSE CASE registry = "strict" -> "false"
         [] registry = "warn" -> "warning"
         [] OTHER -> "throw"

\* typeof registry[name] === "function"
HasValidator(registry, name) == registry \in ValidationRegistries /\ name = "noBob"

BooleanWords ==
  {<<"t","r","u","e">>, <<"f","a","l","s","e">>, <<"1">>, <<"0">>, <<"y","e","s">>, <<"n","o">>}

\* the switch on field.type of validateFieldWithRegistry
TypeErrors(value, field, rowIndex) ==
  IF IsEmptyVal(value) THEN <<>>
  ELSE CASE field.type = "number" ->
              IF IsNaNNumber(value) THEN <<MkError(rowIndex, field.key, "number")>> ELSE <<>>
         [] field.type = "boolean" ->
              IF ToLower(value.s) \notin BooleanWords
              THEN <<MkError(rowIndex, field.key, "boolean")>> ELSE <<>>
         [] OTHER -> <<>>

\* validateRule: the errors (none or one) of a declared rule
validateRule(value, rule, field, rowIndex) ==
  CASE rule.type = "max" ->
         IF field.type = "string" /\ Len(value.s) > rule.value
         THEN <<MkError(rowIndex, field.key, rule.message)>> ELSE <<>>
    [] rule.type = "min" ->
         IF field.type = "string" /\ Len(value.s) < rule.value
         THEN <<MkError(rowIndex, field.key, rule.message)>> ELSE <<>>
    [] OTHER -> <<>>

\* one iteration of field.validations.forEach: [threw, errors]
ValidationStep(value, validation, field, rowIndex, registry) ==
  IF validation.type = "custom" /\ registry # NoRegistry /\ validation.name # ""
     /\ HasValidator(registry, validation.name)
  THEN LET res == CustomValidator(registry, validation.name, value) IN
       CASE res = "throw" -> [threw |-> TRUE, errors |-> <<>>]
         [] res = "false" ->
              [threw |-> FALSE, errors |-> <<MkError(rowIndex, field.key, validation.message)>>]
         [] res = "warning" ->
              [threw |-> FALSE,
               errors |-> <<[row |-> rowIndex, field |-> field.key,
                             message |-> validation.message, severity |-> "warning"]>>]
         [] OTHER -> [threw |-> FALSE, errors |-> <<>>]
  ELSE [threw |-> FALSE, errors |-> validateRule(value, validation, field, rowIndex)]

RECURSIVE ValidationsFrom(_, _, _, _, _)
ValidationsFrom(value, validations, field, rowIndex, registry) ==
  IF validations = <<>> THEN [threw |-> FALSE, errors |-> <<>>]
  ELSE LET h == ValidationStep(value, Head(validations), field, rowIndex, registry) IN
       IF h.threw THEN h
       ELSE LET t == ValidationsFrom(value, Tail(validations), field, rowIndex, registry)
            IN [threw |-> t.threw, errors |-> h.errors \o t.errors]

\* validateFieldWithRegistry, as [threw, errors]: threw when a custom validator
\* threw (the exception leaves the function)
validateFieldWithRegistry(value, field, rowIndex, registry) ==
  IF field.required /\ IsEmptyVal(value)
  THEN [threw |-> FALSE, errors |-> <<MkError(rowIndex, field.key, "required")>>]
  ELSE LET c == ValidationsFrom(value, field.validations, field, rowIndex, registry)
       IN [threw |-> c.threw, errors |-> TypeErrors(value, field, rowIndex) \o c.errors]

----------------------------------------------------------------------------
(* Objects with string keys whose entry order matters (Object.entries) are    *)
(* sequences of [source, target] entries with pairwise distinct sources.      *)

\* key in obj
HasKey(obj, key) == \E i \in 1..Len(obj) : obj[i].source = key

\* obj[key] = val: an existing key keeps its place, a new key goes last
ObjSet(obj, key, val) ==
  IF HasKey(obj, key)
  THEN [i \in 1..Len(obj) |->
          IF obj[i].source = key THEN [source |-> key, target |-> val] ELSE obj[i]]
  ELSE Append(obj, [source |-> key, target |-> val])

\* !!target
Truthy(target) == target # NULL /\ target # ""

MkMapping(source, target, transform) ==
  [source |-> source, target |-> target, transform |-> transform]

RECURSIVE mappingStateToFieldMappings(_)
mappingStateToFieldMappings(mapping) ==
  IF mapping = <<>> THEN <<>>
  ELSE (IF Truthy(Head(mapping).target)
        THEN <<MkMapping(Head(mapping).source, Head(mapping).target, NoTransform)>>
        ELSE <<>>) \o mappingStateToFieldMappings(Tail(mapping))

RECURSIVE FieldMappingsInto(_, _)
FieldMappingsInto(out, fieldMappings) ==
  IF fieldMappings = <<>> THEN out
  ELSE LET m == Head(fieldMappings) IN
       FieldMappingsInto(ObjSet(out, m.source, IF Truthy(m.target) THEN m.target ELSE NULL),
                         Tail(fieldMappings))

fieldMappingsToMappingState(fieldMappings) == FieldMappingsInto(<<>>, fieldMappings)

----------------------------------------------------------------------------
(* Row pipeline *)

\* fields.find((f) => f.key === key): its position, 0 when there is none
FindField(fields, key) ==
  IF \E i \in 1..Len(fields) : fields[i].key = key
  THEN CHOOSE i \in 1..Len(fields) :
         fields[i].key = key /\ \A j \in 1..(i - 1) : fields[j].key # key
  ELSE 0

EmptyObject == [key \in {} |-> NullV]

\* out[key] = value
PutData(out, key, value) ==
  [kk \in DOMAIN out \cup {key} |-> IF kk = key THEN value ELSE out[kk]]

\* `row-${index}`
RowId(index) == <<"row", index>>

\* errors.filter((e) => e.severity === "error").length === 0
NoErrorSeverity(errors) == \A i \in 1..Len(errors) : errors[i].severity # "error"

\* The body of the loop over a mapping entry (source, target, tName): acc is
\* [threw, out, errors]
\* out[target] = coerced; errors.push(...res)
PutCell(acc, target, coerced, res) ==
  [threw |-> res.threw,
   out |-> PutData(acc.out, target, coerced),
   errors |-> acc.errors \o res.errors]

\* the assignment of the coerced value and its validation
ValidatedCell(acc, index, field, target, coerced, vRegistry) ==
  PutCell(acc, target, coerced, validateFieldWithRegistry(coerced, field, index, vRegistry))

MapCell(acc, row, index, fields, source, target, tName, registry, vRegistry) ==
  LET fi == FindField(fields, target) IN
  IF fi = 0 THEN acc
  ELSE ValidatedCell(acc, index, fields[fi], target,
                     transformValue(applyNamedTransform(row[source], tName, registry),
                                    fields[fi].type),
                     vRegistry)

\* for (const m of pipeline.fieldMappings || [])
RECURSIVE PipelineCells(_, _, _, _, _, _, _)
PipelineCells(acc, row, index, fields, fieldMappings, registry, vRegistry) ==
  IF fieldMappings = <<>> \/ acc.threw THEN acc
  ELSE LET m == Head(fieldMappings)
           fi == FindField(fields, m.target)
           tName == IF m.transform # NoTransform \/ fi = 0 THEN m.transform
                    ELSE fields[fi].defaultTransform
           next == IF m.source \notin DOMAIN row \/ ~Truthy(m.target) THEN acc
                   ELSE MapCell(acc, row, index, fields, m.source, m.target, tName,
                                registry, vRegistry)
       IN PipelineCells(next, row, index, fields, Tail(fieldMappings), registry, vRegistry)

\* for (const [sourceColumn, targetField] of Object.entries(state.mappingState))
RECURSIVE LegacyCells(_, _, _, _, _, _, _)
LegacyCells(acc, row, index, fields, mapping, registry, vRegistry) ==
  IF mapping = <<>> \/ acc.threw THEN acc
  ELSE LET e == Head(mapping)
           fi == FindField(fields, e.target)
           present == e.source \in DOMAIN row /\ row[e.source].k # "undef"
           next == IF ~Truthy(e.target) \/ ~present \/ fi = 0 THEN acc
                   ELSE MapCell(acc, row, index, fields, e.source, e.target,
                                fields[fi].defaultTransform, registry, vRegistry)
       IN LegacyCells(next, row, index, fields, Tail(mapping), registry, vRegistry)

\* for (const f of fields) if (f.required && !(f.key in out)) ...
RECURSIVE NotMappedErrors(_, _, _)
NotMappedErrors(fields, out, index) ==
  IF fields = <<>> THEN <<>>
  ELSE (IF Head(fields).required /\ Head(fields).key \notin DOMAIN out
        THEN <<MkError(index, Head(fields).key, "not mapped")>> ELSE <<>>)
       \o NotMappedErrors(Tail(fields), out, index)

\* One iteration of the inner loop of processDataChunked: [threw, row]
\* the start of an iteration: const out = {}; const errors = []
NoCells == [threw |-> FALSE, out |-> EmptyObject, errors |-> <<>>]

\* processed.push({ id, data: out, errors, isValid })
PushedRow(index, out, errors) ==
  [id |-> RowId(index), data |-> out, errors |-> errors,
   isValid |-> NoErrorSeverity(errors)]

\* the end of an iteration, from the cells the mapping loop produced
RowOf(index, fields, cells) ==
  [threw |-> cells.threw,
   row |-> PushedRow(index, cells.out,
                     cells.errors \o NotMappedErrors(fields, cells.out, index))]

ProcessRow(row, index, fields, pipeline, mapping, registry, vRegistry) ==
  RowOf(index, fields,
        IF pipeline.defined
        THEN PipelineCells(NoCells, row, index, fields, pipeline.fieldMappings,
                           registry, vRegistry)
        ELSE LegacyCells(NoCells, row, index, fields, mapping, registry, vRegistry))

\* the rows of the iterations, unless one of them threw
CollectRows(results) ==
  IF \E i \in 1..Len(results) : results[i].threw
  THEN [threw |-> TRUE, rows |-> <<>>]
  ELSE [threw |-> FALSE, rows |-> [i \in 1..Len(results) |-> results[i].row]]

\* processed[rowIdx].errors.push(duplicate error); processed[rowIdx].isValid = false
\* a push that leaves isValid as it was
PushDuplicateKeepsValid(rows, rowIdx, fieldKey) ==
  [rows EXCEPT ![rowIdx] =
     [@ EXCEPT !.errors = Append(@, MkError(rowIdx - 1, fieldKey, "unique"))]]

PushDuplicate(rows, rowIdx, fieldKey) ==
  [rows EXCEPT ![rowIdx] =
     [@ EXCEPT !.errors = Append(@, MkError(rowIdx - 1, fieldKey, "unique")),
               !.isValid = FALSE]]

\* processed.forEach((r, idx) => ...) of the uniqueness pass for one field, from
\* position idx on; seen maps String(val) to the position that first held it
RECURSIVE UniqueScan(_, _, _, _)
UniqueScan(rows, idx, seen, fieldKey) ==
  IF idx > Len(rows) THEN rows
  ELSE LET r == rows[idx]
           has == fieldKey \in DOMAIN r.data
           skip == ~has \/ IsEmptyVal(r.data[fieldKey])
           key == r.data[fieldKey].s
       IN IF skip THEN UniqueScan(rows, idx + 1, seen, fieldKey)
          ELSE IF key \in DOMAIN seen
          THEN UniqueScan(PushDuplicate(PushDuplicate(rows, seen[key], fieldKey), idx, fieldKey),
                          idx + 1, seen, fieldKey)
          ELSE UniqueScan(rows, idx + 1,
                          [kk \in DOMAIN seen \cup {key} |-> IF kk = key THEN idx ELSE seen[kk]],
                          fieldKey)

\* for (const f of uniqueFields) ...
RECURSIVE UniquenessPass(_, _)
UniquenessPass(rows, fields) ==
  IF fields = <<>> THEN rows
  ELSE UniquenessPass(
         IF Head(fields).unique
         THEN UniqueScan(rows, 1, [kk \in {} |-> 0], Head(fields).key) ELSE rows,
         Tail(fields))

\* rows.flatMap((r) => r.errors)
AllErrors(rows) == Flatten([i \in 1..Len(rows) |-> rows[i].errors])

----------------------------------------------------------------------------
(* Auto-mapping *)

\* The characters of the header, label and key strings of the model
NameChars(name) ==
  CASE name = "Id" -> <<"I","d">>
    [] name = "Idz" -> <<"I","d","z">>
    [] name = "Name" -> <<"N","a","m","e">>
    [] name = "Nm" -> <<"N","m">>
    [] name = "id" -> <<"i","d">>
    [] name = "nm" -> <<"n","m">>
    [] name = "Tag" -> <<"T","a","g">>
    [] name = "First" -> <<"F","i","r","s","t">>
    [] name = "first" -> <<"f","i","r","s","t">>
    [] name = "Fist" -> <<"F","i","s","t">>
    [] name = "Last" -> <<"L","a","s","t">>
    [] name = "last" -> <<"l","a","s","t">>
    [] name = "Lst" -> <<"L","s","t">>
    [] name = "Active" -> <<"A","c","t","i","v","e">>
    [] name = "active" -> <<"a","c","t","i","v","e">>
    [] OTHER -> <<>>

\* Levenshtein distance, by the matrix of calculateSimilarity
Levenshtein(str1, str2) ==
  LET matrix[j \in 0..Len(str2), i \in 0..Len(str1)] ==
        IF j = 0 THEN i
        ELSE IF i = 0 THEN j
        ELSE Min2(Min2(matrix[j, i - 1] + 1, matrix[j - 1, i] + 1),
                  matrix[j - 1, i - 1] + (IF str1[i] = str2[j] THEN 0 ELSE 1))
  IN matrix[Len(str2), Len(str1)]

\* calculateSimilarity: 1 - distance / maxLength as the fraction <<num, den>>
calculateSimilarity(str1, str2) ==
  LET maxLength == Max2(Len(str1), Len(str2)) IN
  IF maxLength = 0 THEN <<1, 1>>
  ELSE <<maxLength - Levenshtein(str1, str2), maxLength>>

FracGt(a, b) == a[1] * b[2] > b[1] * a[2]
FracZero == <<0, 1>>

\* the default of the confidenceThreshold parameter, 0.7
DefaultThreshold == <<7, 10>>

\* a || b on numbers: b when a is 0
Confidence(header, field) ==
  LET byLabel == calculateSimilarity(ToLower(NameChars(header)), ToLower(NameChars(field.label)))
      byKey == calculateSimilarity(ToLower(NameChars(header)), ToLower(NameChars(field.key)))
  IN IF byLabel[1] # 0 THEN byLabel ELSE byKey

\* Array.prototype.sort with a comparator b.rank - a.rank: stable, descending
RECURSIVE InsertDesc(_, _)
InsertDesc(sorted, x) ==
  IF sorted = <<>> THEN <<x>>
  ELSE IF FracGt(x.rank, Head(sorted).rank) THEN <<x>> \o sorted
  ELSE <<Head(sorted)>> \o InsertDesc(Tail(sorted), x)

RECURSIVE SortDesc(_)
SortDesc(items) ==
  IF items = <<>> THEN <<>>
  ELSE InsertDesc(SortDesc(SubSeq(items, 1, Len(items) - 1)), items[Len(items)])

\* the candidates of one header: fields scored, filtered by the threshold, sorted
Candidates(header, fields, threshold) ==
  LET scored == [i \in 1..Len(fields) |->
                   [key |-> fields[i].key, rank |-> Confidence(header, fields[i])]]
      Qualifies(c) == FracGt(c.rank, threshold)
  IN SortDesc(SelectSeq(scored, Qualifies))

\* a greedy loop that never marks a target as used
RECURSIVE AssignNeverUsed(_, _, _)
AssignNeverUsed(items, usedTargets, mapping) ==
  IF items = <<>> THEN mapping
  ELSE LET item == Head(items)
       IN AssignNeverUsed(Tail(items), usedTargets,
                          ObjSet(mapping, item.header,
                                 IF item.candidates # <<>> THEN item.candidates[1].key
                                 ELSE NULL))

\* the greedy loop over the sorted headerCandidates
RECURSIVE Assign(_, _, _)
Assign(items, usedTargets, mapping) ==
  IF items = <<>> THEN mapping
  ELSE LET item == Head(items)
           Free(c) == c.key \notin usedTargets
           free == SelectSeq(item.candidates, Free)
       IN IF free # <<>>
          THEN Assign(Tail(items), usedTargets \cup {free[1].key},
                      ObjSet(mapping, item.header, free[1].key))
          ELSE Assign(Tail(items), usedTargets, ObjSet(mapping, item.header, NULL))

generateAutoMapping(importedHeaders, fields, confidenceThreshold) ==
  LET headerCandidates ==
        [i \in 1..Len(importedHeaders) |->
           LET c == Candidates(importedHeaders[i], fields, confidenceThreshold) IN
           [header |-> importedHeaders[i], candidates |-> c,
            rank |-> IF c = <<>> THEN FracZero ELSE c[1].rank]]
  IN Assign(SortDesc(headerCandidates), {}, <<>>)

\* mappingStateToFieldMappings(autoMapping).map(...): the field's defaultTransform
\* is attached when it has one
WithDefaultTransforms(fieldMappings, fields) ==
  [i \in 1..Len(fieldMappings) |->
     LET m == fieldMappings[i]
         fi == FindField(fields, m.target)
     IN IF fi # 0 /\ fields[fi].defaultTransform # NoTransform
        THEN [m EXCEPT !.transform = fields[fi].defaultTransform] ELSE m]

----------------------------------------------------------------------------
(* The configurations, sheets and files the host hands to the store *)

Undefined == [defined |-> FALSE, options |-> "none", fieldMappings |-> <<>>]

MkPipeline(options, fieldMappings) ==
  [defined |-> TRUE, options |-> options, fieldMappings |-> fieldMappings]

FieldId ==
  [key |-> "id", label |-> "Id", type |-> "number", required |-> FALSE,
   unique |-> TRUE, defaultTransform |-> NoTransform, validations |-> <<>>]

FieldNm ==
  [key |-> "nm", label |-> "Name", type |-> "string", required |-> TRUE,
   unique |-> FALSE, defaultTransform |-> "trim",
   validations |-> <<[type |-> "custom", name |-> "noBob", value |-> 0, message |-> "no bob"],
                     [type |-> "max", name |-> "", value |-> 3, message |-> "too long"]>>]

\* a sheet without seeded mappings and with the default threshold
SheetPlain ==
  [slug |-> "s1", fields |-> <<FieldId, FieldNm>>, threshold |-> DefaultThreshold,
   pipelineMappings |-> Undefined]

\* a sheet seeded by the server: two entries for the target id, one for a header
\* no file has, one without a target
SheetSeeded ==
  [slug |-> "s2", fields |-> <<FieldId, FieldNm>>, threshold |-> <<1, 2>>,
   pipelineMappings |->
     MkPipeline("seeded", <<MkMapping("Id", "id", NoTransform),
                            MkMapping("Name", "id", "toUpperCase"),
                            MkMapping("Tag", "nm", NoTransform),
                            MkMapping("Nm", "", NoTransform)>>)]

\* chunkSize 0 stands for an absent processing.chunkSize
ConfigA ==
  [sheets |-> <<SheetPlain>>, chunkSize |-> 1,
   transformRegistry |-> NoRegistry, validationRegistry |-> "strict"]

ConfigB ==
  [sheets |-> <<SheetSeeded, SheetPlain>>, chunkSize |-> 2,
   transformRegistry |-> "host", validationRegistry |-> "throwing"]

ConfigC ==
  [sheets |-> <<SheetPlain>>, chunkSize |-> 0,
   transformRegistry |-> NoRegistry, validationRegistry |-> NoRegistry]

\* initialState.config
InitialConfig ==
  [sheets |-> <<>>, chunkSize |-> 0,
   transformRegistry |-> NoRegistry, validationRegistry |-> NoRegistry]

Configs == {ConfigA, ConfigB, ConfigC}

Slugs == {"s1", "s2", "zz"}

NoData == [present |-> FALSE, headers |-> <<>>, rows |-> <<>>]

MkData(headers, rows) == [present |-> TRUE, headers |-> headers, rows |-> rows]

\* three rows: the first two share an id, the second has no Name cell, the third
\* has an id that is no number and the name bob
DataPeople ==
  MkData(<<"Id", "Name">>,
         <<[h \in {"Id", "Name"} |-> IF h = "Id" THEN StrV(<<"7">>) ELSE StrV(<<"a","m","y"," ">>)],
           [h \in {"Id"} |-> StrV(<<"7">>)],
           [h \in {"Id", "Name"} |-> IF h = "Id" THEN StrV(<<"x">>) ELSE StrV(<<"b","o","b">>)]>>)

\* two headers that both resemble the field id
DataIds ==
  MkData(<<"Idz", "Id">>,
         <<[h \in {"Idz", "Id"} |-> IF h = "Id" THEN StrV(<<"2">>) ELSE StrV(<<"1">>)]>>)

\* a file with a header line only
DataEmpty == MkData(<<"Id", "Nm">>, <<>>)

Files == {DataPeople, DataIds, DataEmpty}

\* a file for the review table: three rows with the id 7 (one written " 7"), a row
\* whose cells are empty
DataTwins ==
  MkData(<<"Id", "Name">>,
         <<[Id |-> StrV(<<"7">>), Name |-> StrV(<<"a","l">>)],
           [Id |-> StrV(<<>>), Name |-> StrV(<<>>)],
           [Id |-> StrV(<<" ","7">>), Name |-> StrV(BobChars)],
           [Id |-> StrV(<<"7">>), Name |-> StrV(<<"a","l">>)]>>)

\* fields, sheets and files for the intake of a file: two name fields that
\* resemble each other, a boolean field, a sheet without fields
FieldFirst ==
  [key |-> "first", label |-> "First", type |-> "string", required |-> FALSE,
   unique |-> FALSE, defaultTransform |-> NoTransform, validations |-> <<>>]

FieldLast ==
  [key |-> "last", label |-> "Last", type |-> "string", required |-> FALSE,
   unique |-> FALSE, defaultTransform |-> NoTransform, validations |-> <<>>]

FieldActive ==
  [key |-> "active", label |-> "Active", type |-> "boolean", required |-> FALSE,
   unique |-> FALSE, defaultTransform |-> NoTransform, validations |-> <<>>]

\* mappingConfidenceThreshold 0.45
SheetNames ==
  [slug |-> "s3", fields |-> <<FieldFirst, FieldLast>>, threshold |-> <<9, 20>>,
   pipelineMappings |-> Undefined]

SheetFlags ==
  [slug |-> "s4", fields |-> <<FieldId, FieldActive>>, threshold |-> DefaultThreshold,
   pipelineMappings |-> Undefined]

SheetBare ==
  [slug |-> "s5", fields |-> <<>>, threshold |-> DefaultThreshold,
   pipelineMappings |-> Undefined]

ConfigNames ==
  [sheets |-> <<SheetNames, SheetPlain>>, chunkSize |-> 0,
   transformRegistry |-> NoRegistry, validationRegistry |-> NoRegistry]

ConfigFlags ==
  [sheets |-> <<SheetFlags, SheetBare>>, chunkSize |-> 0,
   transformRegistry |-> NoRegistry, validationRegistry |-> NoRegistry]

IntakeConfigs == {ConfigNames, ConfigFlags}

IntakeSlugs == {"s1", "s3", "s4", "s5"}

\* three headers that resemble the two name fields
DataNames ==
  MkData(<<"Fist", "Lst", "First">>,
         <<[Fist |-> StrV(<<"a">>), Lst |-> StrV(<<"b">>), First |-> StrV(<<"c">>)]>>)

\* a boolean column: a word that is no boolean, a boolean word, an empty cell
DataFlags ==
  MkData(<<"Id", "Active">>,
         <<[Id |-> StrV(<<"1">>), Active |-> StrV(<<"m","a","y","b","e">>)],
           [Id |-> StrV(<<"2">>), Active |-> StrV(<<"Y","e","s">>)],
           [Id |-> StrV(<<"3">>), Active |-> StrV(<<>>)]>>)

IntakeFiles == {DataNames, DataFlags, DataIds, DataEmpty}

\* generateAutoMapping on every header list and sheet of the model, computed once
AutoMappingTable ==
  [headers \in {f.headers : f \in Files \cup IntakeFiles} |->
     [sheet \in UNION {SeqToSet(c.sheets) : c \in Configs \cup IntakeConfigs} |->
        generateAutoMapping(headers, sheet.fields, sheet.threshold)]]

Sources == {"Id", "Name"}
Targets == {"id", "nm"}

----------------------------------------------------------------------------
(* offloadAndProcessFile: the upload, then the polling loop.  A call runs up   *)
(* to its next await; pc names the await it is suspended at.  elapsed is       *)
(* Date.now() - start; it advances by the delays (the handlers answer at       *)
(* once); answer is what pollResult answered last, until the delay is over.    *)
(* The dead counter attempt is left out.                                       *)

POLL_TIMEOUT_MS == 600000
INITIAL_DELAY_MS == 1000
MAX_DELAY_MS == 10000

\* Math.floor(waitMs * BACKOFF_FACTOR), BACKOFF_FACTOR = 1.5
Backoff(waitMs) == (waitMs * 3) \div 2

\* the least and the greatest value of withJitter(ms): Math.random() is in [0, 1),
\* JITTER_RATIO is 0.2
JitterMin(ms) == Max2(250, (4 * ms) \div 5)
JitterMax(ms) == Max2(JitterMin(ms), ((6 * ms + 4) \div 5) - 1)
Jitters(ms) == {JitterMin(ms), JitterMax(ms)}

\* what handlers.pollResult answers: a rejected promise, or {done, error, rows}
PollAnswers == {"callFailed", "pending", "doneWithError", "doneWithRows"}

NotOffloading ==
  [pc |-> "idle", elapsed |-> 0, waitMs |-> 0, answer |-> "", outcome |-> ""]

\* the call up to the first await of pollResult; upload is how the steps before
\* the loop went
offloadAndProcessFile(upload) ==
  /\ offload.pc = "idle"
  /\ offload' =
       IF upload # "ok"
       THEN [offload EXCEPT !.pc = "rejected", !.outcome = upload]
       ELSE [offload EXCEPT !.pc = "pollResult", !.waitMs = INITIAL_DELAY_MS]
  /\ UNCHANGED <<config, currentSheet, importedData, mappingState, pipelineMappings,
                 processedData, validationErrors, isLoading, processingProgress,
                 transformRegistry, validationRegistry, processingRunId, runs, lastCall>>

\* the try block after pollResult settled, up to the await of delay: the return
\* leaves the function, the throw of the job's error is caught by the catch
Polled(answer) ==
  CASE answer = "doneWithRows" ->
         [offload EXCEPT !.pc = "resolved", !.answer = answer, !.outcome = "rows"]
    [] OTHER -> [offload EXCEPT !.pc = "delay", !.answer = answer]

pollResult(answer) ==
  /\ offload.pc = "pollResult"
  /\ offload' = Polled(answer)
  /\ UNCHANGED <<config, currentSheet, importedData, mappingState, pipelineMappings,
                 processedData, validationErrors, isLoading, processingProgress,
                 transformRegistry, validationRegistry, processingRunId, runs, lastCall>>

\* the timer of delay fired after ms: the backoff, then the test of the timeout
\* at the top of the loop
delay(ms) ==
  /\ offload.pc = "delay"
  /\ offload' =
       IF offload.elapsed + ms > POLL_TIMEOUT_MS
       THEN [offload EXCEPT !.pc = "rejected", !.outcome = "Processing timed out",
                            !.answer = "", !.elapsed = @ + ms,
                            !.waitMs = Min2(MAX_DELAY_MS, Backoff(@))]
       ELSE [offload EXCEPT !.pc = "pollResult", !.answer = "", !.elapsed = @ + ms,
                            !.waitMs = Min2(MAX_DELAY_MS, Backoff(@))]
  /\ UNCHANGED <<config, currentSheet, importedData, mappingState, pipelineMappings,
                 processedData, validationErrors, isLoading, processingProgress,
                 transformRegistry, validationRegistry, processingRunId, runs, lastCall>>

----------------------------------------------------------------------------
(* The store *)

\* the value of the history variable: the action, and the arguments that the
\* properties below read (of updateMapping, setFieldMappings, a resumed call and
\* the row actions)
CalledWith(op, source, target, list, runId) ==
  [op |-> op, source |-> source, target |-> target, list |-> list, runId |-> runId,
   rowId |-> <<>>, fieldKey |-> "", value |-> UndefV]

Called(op) == CalledWith(op, "", "", <<>>, 0)

CalledOnRow(op, rowId, fieldKey, value) ==
  [Called(op) EXCEPT !.rowId = rowId, !.fieldKey = fieldKey, !.value = value]

Init ==
  /\ config = InitialConfig
  /\ currentSheet = ""
  /\ importedData = NoData
  /\ mappingState = <<>>
  /\ pipelineMappings = Undefined
  /\ processedData = <<>>
  /\ validationErrors = <<>>
  /\ isLoading = FALSE
  /\ processingProgress = <<0, 1>>
  /\ transformRegistry = "default"
  /\ validationRegistry = NoRegistry
  /\ processingRunId = 0
  /\ runs = {}
  /\ lastCall = Called("none")
  /\ offload = NotOffloading

\* state.config.sheets?.find((s) => s.slug === slug): its position, 0 when none
FindSheet(cfg, slug) ==
  IF \E i \in 1..Len(cfg.sheets) : cfg.sheets[i].slug = slug
  THEN CHOOSE i \in 1..Len(cfg.sheets) :
         cfg.sheets[i].slug = slug /\ \A j \in 1..(i - 1) : cfg.sheets[j].slug # slug
  ELSE 0

HasCurrentSheet == FindSheet(config, currentSheet) # 0
CurrentSheetConfig == config.sheets[FindSheet(config, currentSheet)]

setConfig(cfg) ==
  /\ UNCHANGED offload
  /\ lastCall' = Called("setConfig")
  /\ config' = cfg
  /\ transformRegistry' = EffectiveRegistry(cfg.transformRegistry)
  /\ validationRegistry' = cfg.validationRegistry
  /\ IF Len(cfg.sheets) > 0
     THEN /\ currentSheet' = cfg.sheets[1].slug
          /\ pipelineMappings' = cfg.sheets[1].pipelineMappings
     ELSE UNCHANGED <<currentSheet, pipelineMappings>>
  /\ UNCHANGED <<importedData, mappingState, processedData, validationErrors,
                 isLoading, processingProgress, processingRunId, runs>>

setCurrentSheet(sheetSlug) ==
  /\ UNCHANGED offload
  /\ lastCall' = Called("setCurrentSheet")
  /\ currentSheet' = sheetSlug
  /\ importedData' = NoData
  /\ mappingState' = <<>>
  /\ processedData' = <<>>
  /\ validationErrors' = <<>>
  /\ pipelineMappings' =
       IF FindSheet(config, sheetSlug) # 0
       THEN config.sheets[FindSheet(config, sheetSlug)].pipelineMappings
       ELSE Undefined
  /\ UNCHANGED <<config, isLoading, processingProgress, transformRegistry,
                 validationRegistry, processingRunId, runs>>

\* the seeded branch of setImportedData: keep the entries whose source is a header
\* of the file, then the first entry of each non-empty target
RECURSIVE DedupeByTarget(_, _)
DedupeByTarget(fieldMappings, seenTargets) ==
  IF fieldMappings = <<>> THEN <<>>
  ELSE LET m == Head(fieldMappings) IN
       IF ~Truthy(m.target) \/ m.target \in seenTargets
       THEN DedupeByTarget(Tail(fieldMappings), seenTargets)
       ELSE <<m>> \o DedupeByTarget(Tail(fieldMappings), seenTargets \cup {m.target})

\* the seeded entries de-duplicated, whatever the headers of the file
SeededMappingsAnyHeader(seed, headers) == DedupeByTarget(seed.fieldMappings, {})

SeededMappings(seed, headers) ==
  LET InFile(m) == m.source \in SeqToSet(headers)
  IN DedupeByTarget(SelectSeq(seed.fieldMappings, InFile), {})

setImportedData(data) ==
  /\ UNCHANGED offload
  /\ lastCall' = Called("setImportedData")
  /\ importedData' = data
  /\ IF HasCurrentSheet
     THEN LET sheet == CurrentSheetConfig
              seed == sheet.pipelineMappings
              autoMapping == AutoMappingTable[data.headers][sheet]
              deduped == SeededMappings(seed, data.headers)
          IN /\ IF ~seed.defined
                THEN /\ mappingState' = autoMapping
                     /\ pipelineMappings' =
                          MkPipeline("none",
                            WithDefaultTransforms(mappingStateToFieldMappings(autoMapping),
                                                  sheet.fields))
                ELSE /\ mappingState' = fieldMappingsToMappingState(deduped)
                     /\ pipelineMappings' = [seed EXCEPT !.fieldMappings = deduped]
             /\ processedData' = <<>>
             /\ validationErrors' = <<>>
             /\ isLoading' = FALSE
     ELSE UNCHANGED <<mappingState, pipelineMappings, processedData, validationErrors,
                      isLoading>>
  /\ UNCHANGED <<config, currentSheet, processingProgress, transformRegistry,
                 validationRegistry, processingRunId, runs>>

clearImportedData ==
  /\ UNCHANGED offload
  /\ lastCall' = Called("clearImportedData")
  /\ importedData' = NoData
  /\ mappingState' = <<>>
  /\ processedData' = <<>>
  /\ validationErrors' = <<>>
  /\ UNCHANGED <<config, currentSheet, pipelineMappings, isLoading, processingProgress,
                 transformRegistry, validationRegistry, processingRunId, runs>>

\* a mapping mutation that clears the store without calling cancelProcessing
CancelAndClearNoBump ==
  /\ processingRunId < MaxRunId
  /\ processingRunId' = processingRunId
  /\ isLoading' = FALSE
  /\ processingProgress' = <<0, 1>>
  /\ processedData' = <<>>
  /\ validationErrors' = <<>>

\* cancelProcessing, and the set({ processedData: [], validationErrors: [] }) that
\* follows it in every mapping mutation
CancelAndClear ==
  /\ processingRunId < MaxRunId
  /\ processingRunId' = processingRunId + 1
  /\ isLoading' = FALSE
  /\ processingProgress' = <<0, 1>>
  /\ processedData' = <<>>
  /\ validationErrors' = <<>>

cancelProcessing ==
  /\ UNCHANGED offload
  /\ lastCall' = Called("cancelProcessing")
  /\ processingRunId < MaxRunId
  /\ processingRunId' = processingRunId + 1
  /\ isLoading' = FALSE
  /\ processingProgress' = <<0, 1>>
  /\ UNCHANGED <<config, currentSheet, importedData, mappingState, pipelineMappings,
                 processedData, validationErrors, transformRegistry,
                 validationRegistry, runs>>

\* cancelProcessing, or the start of processDataChunked, on another store made by
\* createWorkbookStore: of this store's state it touches the module-level
\* processingRunId alone
otherStoreBumpsRunId ==
  /\ UNCHANGED offload
  /\ lastCall' = Called("otherStore")
  /\ processingRunId < MaxRunId
  /\ processingRunId' = processingRunId + 1
  /\ UNCHANGED <<config, currentSheet, importedData, mappingState, pipelineMappings,
                 processedData, validationErrors, isLoading, processingProgress,
                 transformRegistry, validationRegistry, runs>>

setMapping(mapping) ==
  /\ UNCHANGED offload
  /\ lastCall' = Called("setMapping")
  /\ mappingState' = mapping
  /\ pipelineMappings' = MkPipeline("none", mappingStateToFieldMappings(mapping))
  /\ CancelAndClear
  /\ UNCHANGED <<config, currentSheet, importedData, transformRegistry,
                 validationRegistry, runs>>

\* updateMapping without the loop that clears the other sources of the target
UpdatedMappingStateNoClear(mapping, sourceColumn, targetField) ==
  ObjSet(mapping, sourceColumn, targetField)

\* newMapping of updateMapping
UpdatedMappingState(mapping, sourceColumn, targetField) ==
  LET cleared == [i \in 1..Len(mapping) |->
                    IF Truthy(targetField) /\ mapping[i].source # sourceColumn
                       /\ mapping[i].target = targetField
                    THEN [mapping[i] EXCEPT !.target = NULL] ELSE mapping[i]]
  IN ObjSet(cleared, sourceColumn, targetField)

\* next of updateMapping
UpdatedFieldMappings(existing, sourceColumn, targetField, fields) ==
  LET NotSource(m) == m.source # sourceColumn
      NotTarget(m) == m.target # targetField
      IsSource(m) == m.source = sourceColumn
      own == SelectSeq(existing, IsSource)
      kept == IF own = <<>> THEN NoTransform ELSE own[1].transform
      fi == FindField(fields, targetField)
      transform == IF kept # NoTransform THEN kept
                   ELSE IF fi # 0 THEN fields[fi].defaultTransform ELSE NoTransform
  IN IF Truthy(targetField)
     THEN Append(SelectSeq(SelectSeq(existing, NotSource), NotTarget),
                 MkMapping(sourceColumn, targetField, transform))
     ELSE SelectSeq(existing, NotSource)

updateMapping(sourceColumn, targetField) ==
  /\ UNCHANGED offload
  /\ lastCall' = CalledWith("updateMapping", sourceColumn, targetField, <<>>, 0)
  /\ mappingState' = UpdatedMappingState(mappingState, sourceColumn, targetField)
  /\ pipelineMappings' =
       MkPipeline(pipelineMappings.options,
                  UpdatedFieldMappings(pipelineMappings.fieldMappings, sourceColumn,
                                       targetField,
                                       IF HasCurrentSheet THEN CurrentSheetConfig.fields
                                       ELSE <<>>))
  /\ CancelAndClear
  /\ UNCHANGED <<config, currentSheet, importedData, transformRegistry,
                 validationRegistry, runs>>

\* byTarget.set(m.target, { ...m }) for the entries with a target, then
\* Array.from(byTarget.values()): a Map keeps the place of a key's first insertion
RECURSIVE CompactInto(_, _)
CompactInto(byTarget, fieldMappings) ==
  IF fieldMappings = <<>> THEN byTarget
  ELSE LET m == Head(fieldMappings)
           Same(x) == x.target = m.target
           next == IF ~Truthy(m.target) THEN byTarget
                   ELSE IF SelectSeq(byTarget, Same) # <<>>
                   THEN [i \in 1..Len(byTarget) |->
                           IF byTarget[i].target = m.target THEN m ELSE byTarget[i]]
                   ELSE Append(byTarget, m)
       IN CompactInto(next, Tail(fieldMappings))

\* compaction in which the first entry of a target wins
RECURSIVE CompactedFirstWins(_)
CompactedFirstWins(fieldMappings) ==
  IF fieldMappings = <<>> THEN <<>>
  ELSE LET m == Head(fieldMappings)
           Other(x) == x.target # m.target
       IN IF ~Truthy(m.target) THEN CompactedFirstWins(Tail(fieldMappings))
          ELSE <<m>> \o CompactedFirstWins(SelectSeq(Tail(fieldMappings), Other))

Compacted(fieldMappings) == CompactInto(<<>>, fieldMappings)

setFieldMappings(fieldMappings) ==
  /\ UNCHANGED offload
  /\ lastCall' = CalledWith("setFieldMappings", "", "", fieldMappings, 0)
  /\ pipelineMappings' = MkPipeline(pipelineMappings.options, Compacted(fieldMappings))
  /\ mappingState' = fieldMappingsToMappingState(Compacted(fieldMappings))
  /\ CancelAndClear
  /\ UNCHANGED <<config, currentSheet, importedData, transformRegistry,
                 validationRegistry, runs>>

setTransformRegistry(registry) ==
  /\ UNCHANGED offload
  /\ lastCall' = Called("setTransformRegistry")
  /\ transformRegistry' = registry
  /\ CancelAndClear
  /\ UNCHANGED <<config, currentSheet, importedData, mappingState, pipelineMappings,
                 validationRegistry, runs>>

\* the store action generateAutoMapping
generateAutoMappingAction ==
  /\ UNCHANGED offload
  /\ lastCall' = Called("generateAutoMapping")
  /\ importedData.present
  /\ HasCurrentSheet
  /\ LET sheet == CurrentSheetConfig
         autoMapping == AutoMappingTable[importedData.headers][sheet]
     IN /\ mappingState' = autoMapping
        /\ pipelineMappings' =
             MkPipeline("none",
               WithDefaultTransforms(mappingStateToFieldMappings(autoMapping), sheet.fields))
  /\ CancelAndClear
  /\ UNCHANGED <<config, currentSheet, importedData, transformRegistry,
                 validationRegistry, runs>>

\* set(initialState): the run counter is a module variable and stays
reset ==
  /\ UNCHANGED offload
  /\ lastCall' = Called("reset")
  /\ config' = InitialConfig
  /\ currentSheet' = ""
  /\ importedData' = NoData
  /\ mappingState' = <<>>
  /\ pipelineMappings' = Undefined
  /\ processedData' = <<>>
  /\ validationErrors' = <<>>
  /\ isLoading' = FALSE
  /\ processingProgress' = <<0, 1>>
  /\ transformRegistry' = "default"
  /\ validationRegistry' = NoRegistry
  /\ UNCHANGED <<processingRunId, runs>>

----------------------------------------------------------------------------
(* The synchronous pass and the row actions of the review table *)

\* the loop over pipeline.fieldMappings of processImportedDataWithMappings
RECURSIVE MappedCells(_, _, _, _, _, _, _)
MappedCells(acc, row, index, fields, fieldMappings, registry, vRegistry) ==
  IF fieldMappings = <<>> \/ acc.threw THEN acc
  ELSE LET m == Head(fieldMappings)
           fi == FindField(fields, m.target)
           tName == IF m.transform # NoTransform \/ fi = 0 THEN m.transform
                    ELSE fields[fi].defaultTransform
           next == IF m.source \notin DOMAIN row THEN acc
                   ELSE MapCell(acc, row, index, fields, m.source, m.target, tName,
                                registry, vRegistry)
       IN MappedCells(next, row, index, fields, Tail(fieldMappings), registry, vRegistry)

\* processImportedDataWithMappings, as [threw, rows]
processImportedDataWithMappings(data, fields, pipeline, registry, vRegistry) ==
  CollectRows([i \in 1..Len(data.rows) |->
                 RowOf(i - 1, fields,
                       MappedCells(NoCells, data.rows[i], i - 1, fields,
                                   pipeline.fieldMappings, registry, vRegistry))])

\* set({ processedData }); set({ validationErrors }), unless the pass threw
SetProcessed(result, fields) ==
  IF result.threw THEN UNCHANGED <<processedData, validationErrors>>
  ELSE /\ processedData' = UniquenessPass(result.rows, fields)
       /\ validationErrors' = AllErrors(UniquenessPass(result.rows, fields))

\* the call of processImportedDataWithMappings in processData
SyncPass ==
  processImportedDataWithMappings(
    importedData, CurrentSheetConfig.fields,
    IF pipelineMappings.defined THEN pipelineMappings
    ELSE MkPipeline("none", mappingStateToFieldMappings(mappingState)),
    EffectiveRegistry(transformRegistry), validationRegistry)

processData ==
  /\ UNCHANGED offload
  /\ lastCall' = Called("processData")
  /\ IF importedData.present /\ HasCurrentSheet
     THEN SetProcessed(SyncPass, CurrentSheetConfig.fields)
     ELSE UNCHANGED <<processedData, validationErrors>>
  /\ UNCHANGED <<config, currentSheet, importedData, mappingState, pipelineMappings,
                 isLoading, processingProgress, transformRegistry, validationRegistry,
                 processingRunId, runs>>

\* state.processedData.findIndex((r) => r.id === rowId): -1 when there is none
FindIndex(rows, rowId) ==
  IF \E i \in 1..Len(rows) : rows[i].id = rowId
  THEN (CHOOSE i \in 1..Len(rows) :
          rows[i].id = rowId /\ \A j \in 1..(i - 1) : rows[j].id # rowId) - 1
  ELSE 0 - 1

\* the errors pushed in updateRowData, as [threw, errors]: none when the sheet
\* has no field fieldKey
FieldErrors(value, fieldKey, rowIndex, fields, vRegistry) ==
  IF FindField(fields, fieldKey) = 0 THEN [threw |-> FALSE, errors |-> <<>>]
  ELSE validateFieldWithRegistry(value, fields[FindField(fields, fieldKey)], rowIndex,
                                 vRegistry)

\* an edit that drops every error of the row
UpdatedRowNoErrorsKept(row, fieldKey, value, res) ==
  [row EXCEPT !.data = PutData(row.data, fieldKey, value),
              !.errors = res.errors,
              !.isValid = NoErrorSeverity(res.errors)]

\* the object updateRowData returns for the row with the id rowId
UpdatedRow(row, fieldKey, value, res) ==
  LET OtherField(e) == e.field # fieldKey
      errors == SelectSeq(row.errors, OtherField) \o res.errors
  IN [row EXCEPT !.data = PutData(row.data, fieldKey, value),
                 !.errors = errors,
                 !.isValid = NoErrorSeverity(errors)]

\* an edit after which the uniqueness pass runs over all rows
PatchedWithUniqueness(rows, rowId, fieldKey, value, res) ==
  [threw |-> res.threw /\ \E i \in 1..Len(rows) : rows[i].id = rowId,
   rows |-> UniqueScan([i \in 1..Len(rows) |->
                          IF rows[i].id = rowId
                          THEN UpdatedRow(rows[i], fieldKey, value, res) ELSE rows[i]],
                       1, [kk \in {} |-> 0], fieldKey)]

\* state.processedData.map(...) of updateRowData, as [threw, rows]
Patched(rows, rowId, fieldKey, value, res) ==
  [threw |-> res.threw /\ \E i \in 1..Len(rows) : rows[i].id = rowId,
   rows |-> [i \in 1..Len(rows) |->
               IF rows[i].id = rowId
               THEN UpdatedRow(rows[i], fieldKey, value, res) ELSE rows[i]]]

\* set({ processedData: updatedData }); set({ validationErrors }), unless the
\* validator threw inside map
SetPatched(result) ==
  IF result.threw THEN UNCHANGED <<processedData, validationErrors>>
  ELSE /\ processedData' = result.rows
       /\ validationErrors' = AllErrors(result.rows)

updateRowData(rowId, fieldKey, value) ==
  /\ UNCHANGED offload
  /\ lastCall' = CalledOnRow("updateRowData", rowId, fieldKey, value)
  /\ IF HasCurrentSheet
     THEN SetPatched(Patched(processedData, rowId, fieldKey, value,
                             FieldErrors(value, fieldKey, FindIndex(processedData, rowId),
                                         CurrentSheetConfig.fields, validationRegistry)))
     ELSE UNCHANGED <<processedData, validationErrors>>
  /\ UNCHANGED <<config, currentSheet, importedData, mappingState, pipelineMappings,
                 isLoading, processingProgress, transformRegistry, validationRegistry,
                 processingRunId, runs>>

\* set({ processedData: kept }); set({ validationErrors })
SetKept(kept) ==
  /\ processedData' = kept
  /\ validationErrors' = AllErrors(kept)

deleteRow(rowId) ==
  /\ UNCHANGED offload
  /\ lastCall' = CalledOnRow("deleteRow", rowId, "", UndefV)
  /\ LET OtherRow(row) == row.id # rowId IN SetKept(SelectSeq(processedData, OtherRow))
  /\ UNCHANGED <<config, currentSheet, importedData, mappingState, pipelineMappings,
                 isLoading, processingProgress, transformRegistry, validationRegistry,
                 processingRunId, runs>>

deleteInvalidRows ==
  /\ UNCHANGED offload
  /\ lastCall' = Called("deleteInvalidRows")
  /\ LET Valid(row) == row.isValid IN SetKept(SelectSeq(processedData, Valid))
  /\ UNCHANGED <<config, currentSheet, importedData, mappingState, pipelineMappings,
                 isLoading, processingProgress, transformRegistry, validationRegistry,
                 processingRunId, runs>>

\* addRow at the time now (Date.now()); the table holds at most MaxRows rows
addRow(now) ==
  /\ UNCHANGED offload
  /\ lastCall' = CalledOnRow("addRow", RowId(now), "", UndefV)
  /\ Len(processedData) < MaxRows
  /\ processedData' = Append(processedData,
                             [id |-> RowId(now), data |-> EmptyObject, errors |-> <<>>,
                              isValid |-> FALSE])
  /\ UNCHANGED <<config, currentSheet, importedData, mappingState, pipelineMappings,
                 validationErrors, isLoading, processingProgress, transformRegistry,
                 validationRegistry, processingRunId, runs>>

----------------------------------------------------------------------------
(* processDataChunked.  A call runs synchronously up to its await (once per    *)
(* batch); the calls suspended there are the records of runs.  A record holds  *)
(* what the call captured when it started, the rows it has built (processed)   *)
(* and the start index of the batch it built last.                             *)

\* the batch size when processing.chunkSize is absent or not positive
DefaultBatch == 2000

Batch(cfg) == IF cfg.chunkSize > 0 THEN cfg.chunkSize ELSE DefaultBatch

RECURSIVE Gcd(_, _)
Gcd(a, b) == IF b = 0 THEN a ELSE Gcd(b, a % b)

\* Math.min(1, done / total) in lowest terms
Progress(done, total) ==
  IF done >= total THEN <<1, 1>>
  ELSE IF done = 0 THEN <<0, 1>>
  ELSE <<done \div Gcd(done, total), total \div Gcd(done, total)>>

\* a call that never looks at the counter
SupersededNever(run) == FALSE

\* a call that compares the counter the wrong way round
SupersededWrongWay(run) == run.runId > processingRunId

\* runId !== processingRunId
Superseded(run) == run.runId # processingRunId

\* the inner loop, rows index (0-based) up to end - 1: [threw, rows]
ProcessRange(run, index, end) ==
  CollectRows([i \in 1..Max2(end - index, 0) |->
                 ProcessRow(run.rows[index + i], index + i - 1, run.fields, run.pipeline,
                            run.mapping, run.registry, run.vRegistry)])

\* a batch that ends after its first row
BatchEndOneRow(run) == Min2(Len(run.rows), run.start + 1)

\* Math.min(rows.length, start + BATCH)
BatchEnd(run) == Min2(Len(run.rows), run.start + run.batch)

\* a call that publishes the rows of the last batch only
SegmentNoAccumulate(run) ==
  IF run.start < Len(run.rows)
  THEN LET b == ProcessRange(run, run.start, BatchEnd(run))
       IN IF b.threw THEN [kind |-> "threw", processed |-> run.processed]
          ELSE [kind |-> "published", processed |-> b.rows]
  ELSE [kind |-> "finished", processed |-> UniquenessPass(run.processed, run.fields)]

\* a batch after which the uniqueness pass runs over the rows built so far
PublishedWithUniqueness(run, b) ==
  IF b.threw THEN [kind |-> "threw", processed |-> run.processed]
  ELSE [kind |-> "published",
        processed |-> UniquenessPass(run.processed \o b.rows, run.fields)]

\* the end of a batch b: processed holds the rows of all batches so far
Published(run, b) ==
  IF b.threw THEN [kind |-> "threw", processed |-> run.processed]
  ELSE [kind |-> "published", processed |-> run.processed \o b.rows]

\* What the call does from the head of the outer loop, with start = run.start,
\* until it suspends or returns, given that it is not superseded:
\*   "threw"     an exception left the call: nothing is written
\*   "published" a batch was built and published, the call awaits
\*   "finished"  the loop was over: uniqueness pass and the final writes
Segment(run) ==
  IF run.start < Len(run.rows)
  THEN Published(run, ProcessRange(run, run.start, BatchEnd(run)))
  ELSE [kind |-> "finished", processed |-> UniquenessPass(run.processed, run.fields)]

\* rows.length || 1
Total(run) == IF Len(run.rows) = 0 THEN 1 ELSE Len(run.rows)

\* The writes of the segment seg of the call run, which was suspended as old,
\* applied to the store in which isLoading and processingProgress are loading and
\* progress
ApplyResult(old, run, loading, progress, seg) ==
  CASE seg.kind = "threw" ->
         /\ runs' = runs \ {old}
         /\ isLoading' = loading
         /\ processingProgress' = progress
         /\ UNCHANGED <<processedData, validationErrors>>
    [] seg.kind = "published" ->
         /\ runs' = (runs \ {old}) \cup {[run EXCEPT !.processed = seg.processed]}
         /\ processedData' = seg.processed
         /\ processingProgress' = Progress(Len(seg.processed), Total(run))
         /\ isLoading' = loading
         /\ UNCHANGED validationErrors
    [] OTHER ->
         /\ runs' = runs \ {old}
         /\ processedData' = seg.processed
         /\ validationErrors' = AllErrors(seg.processed)
         /\ isLoading' = FALSE
         /\ processingProgress' = <<1, 1>>

ApplySegment(old, run, loading, progress) ==
  ApplyResult(old, run, loading, progress, Segment(run))

\* what a call of processDataChunked captures before its loop; overlapped is a
\* history field: whether an earlier call was still suspended when this one started
NewRun ==
  [runId |-> processingRunId + 1,
   rows |-> importedData.rows,
   fields |-> CurrentSheetConfig.fields,
   pipeline |-> pipelineMappings,
   mapping |-> mappingState,
   registry |-> EffectiveRegistry(transformRegistry),
   vRegistry |-> validationRegistry,
   batch |-> Batch(config),
   processed |-> <<>>,
   start |-> 0,
   overlapped |-> runs # {}]

\* the call of processDataChunked, up to its first await or its return
processDataChunked ==
  /\ UNCHANGED offload
  /\ lastCall' = CalledWith("processDataChunked", "", "", <<>>, processingRunId + 1)
  /\ importedData.present
  /\ HasCurrentSheet
  /\ processingRunId < MaxRunId
  /\ Cardinality(runs) < MaxRuns
  /\ processingRunId' = processingRunId + 1
  /\ ApplySegment(NewRun, NewRun, TRUE, <<0, 1>>)
  /\ UNCHANGED <<config, currentSheet, importedData, mappingState, pipelineMappings,
                 transformRegistry, validationRegistry>>

\* a suspended call resumes after its timer: start += BATCH, then the loop test
resumeChunked(run) ==
  /\ UNCHANGED offload
  /\ lastCall' = CalledWith("resumeChunked", "", "", <<>>, run.runId)
  /\ run \in runs
  /\ IF Superseded(run)
     THEN /\ runs' = runs \ {run}
          /\ UNCHANGED <<processedData, validationErrors, isLoading, processingProgress>>
     ELSE ApplySegment(run, [run EXCEPT !.start = run.start + run.batch],
                       isLoading, processingProgress)
  /\ UNCHANGED <<config, currentSheet, importedData, mappingState, pipelineMappings,
                 transformRegistry, validationRegistry, processingRunId>>

----------------------------------------------------------------------------
(* Specifications *)

\* the maps handed to setMapping: sources of the file, in either insertion order
RECURSIVE MappingsOver(_)
MappingsOver(sources) ==
  IF sources = {} THEN {<<>>}
  ELSE UNION {{Append(m, [source |-> src, target |-> t]) :
                 m \in MappingsOver(sources \ {src}), t \in Targets \cup {NULL}} :
              src \in sources}

AllMappings == UNION {MappingsOver(S) : S \in SUBSET Sources}

\* the lists handed to setFieldMappings are built from these entries: two sources
\* for the target id, two targets for the source Id, an entry without a target
MappingEntries ==
  {MkMapping("Id", "id", NoTransform), MkMapping("Name", "id", "toUpperCase"),
   MkMapping("Id", "nm", NoTransform), MkMapping("Name", "", NoTransform)}

ListsUpTo(n) == UNION {[1..k -> MappingEntries] : k \in 0..n}

\* the same operations on a few inputs, for the specification with chunked runs
FewMappings ==
  {<<[source |-> "Id", target |-> "id"], [source |-> "Name", target |-> "id"]>>}

FewLists ==
  {<<MkMapping("Name", "nm", "toUpperCase"), MkMapping("Id", "id", NoTransform)>>}

\* The store with chunked runs. The host configures the store once; files are
\* imported, mappings edited and runs started, resumed and cancelled in any order.
Next ==
  \/ \E cfg \in Configs : config = InitialConfig /\ setConfig(cfg)
  \/ \E data \in {DataPeople, DataEmpty} : setImportedData(data)
  \/ \E mapping \in FewMappings : setMapping(mapping)
  \/ \E t \in {"id", NULL} : updateMapping("Name", t)
  \/ \E list \in FewLists : setFieldMappings(list)
  \/ setTransformRegistry("host")
  \/ generateAutoMappingAction
  \/ processDataChunked
  \/ \E run \in runs : resumeChunked(run)
  \/ cancelProcessing

Spec == Init /\ [][Next]_vars

\* the mapping controller alone, on every input within the bounds
NextMapping ==
  \/ \E cfg \in Configs : setConfig(cfg)
  \/ \E slug \in Slugs : setCurrentSheet(slug)
  \/ \E data \in Files : setImportedData(data)
  \/ clearImportedData
  \/ \E mapping \in AllMappings : setMapping(mapping)
  \/ \E src \in Sources, t \in Targets \cup {NULL} : updateMapping(src, t)
  \/ \E list \in ListsUpTo(MaxLen) : setFieldMappings(list)
  \/ generateAutoMappingAction
  \/ reset

SpecMapping == Init /\ [][NextMapping]_vars

\* the inputs of the review table
ReviewMappings ==
  {<<[source |-> "Name", target |-> "nm"], [source |-> "Id", target |-> "nm"]>>}

ReviewRows == {RowId(3)}

ReviewEdits ==
  {[fieldKey |-> "id", value |-> StrV(<<"7">>)],
   [fieldKey |-> "id", value |-> StrV(<<"x", " ">>)],
   [fieldKey |-> "nm", value |-> StrV(<<>>)]}

\* Date.now() at the calls of addRow
Timestamps == {1000}

\* The review table: the host configures the store once, a file is imported,
\* mapped and processed in one synchronous pass, and the rows are edited,
\* deleted and added in any order.
NextReview ==
  \/ \E cfg \in Configs : config = InitialConfig /\ setConfig(cfg)
  \/ setImportedData(DataTwins)
  \/ \E mapping \in ReviewMappings : setMapping(mapping)
  \/ processData
  \/ \E rowId \in ReviewRows, edit \in ReviewEdits :
       updateRowData(rowId, edit.fieldKey, edit.value)
  \/ \E rowId \in {RowId(0)} : deleteRow(rowId)
  \/ deleteInvalidRows
  \/ \E now \in Timestamps : addRow(now)

SpecReview == Init /\ [][NextReview]_vars

\* Two stores of one page: this store with its chunked runs, and the calls on the
\* other store that reach the shared run counter.
NextTwoStores ==
  \/ \E cfg \in Configs : config = InitialConfig /\ setConfig(cfg)
  \/ \E data \in {DataPeople, DataEmpty} : setImportedData(data)
  \/ processDataChunked
  \/ \E run \in runs : resumeChunked(run)
  \/ cancelProcessing
  \/ otherStoreBumpsRunId

SpecTwoStores == Init /\ [][NextTwoStores]_vars

\* The intake of a file: the host configures the store and picks a sheet, a file
\* is imported and auto-mapped, and the rows are built in one synchronous pass.
NextIntake ==
  \/ \E cfg \in IntakeConfigs : setConfig(cfg)
  \/ \E slug \in IntakeSlugs : setCurrentSheet(slug)
  \/ \E data \in IntakeFiles : setImportedData(data)
  \/ generateAutoMappingAction
  \/ processData

SpecIntake == Init /\ [][NextIntake]_vars

\* how the steps before the polling loop end
Uploads == {"ok", "Backend client is not configured", "Upload failed"}

\* One call of offloadAndProcessFile with every answer of the handlers.
NextOffload ==
  \/ \E upload \in Uploads : offloadAndProcessFile(upload)
  \/ \E answer \in PollAnswers : pollResult(answer)
  \/ \E ms \in Jitters(offload.waitMs) : delay(ms)

SpecOffload == Init /\ [][NextOffload]_vars

----------------------------------------------------------------------------
(* Properties *)

FieldMappingsNow == pipelineMappings.fieldMappings

\* the four parts of the store a chunked run writes
RunOutputs == <<processedData, validationErrors, isLoading, processingProgress>>

\* C1: in every reachable state no two entries of pipelineMappings.fieldMappings
\* have the same target.
C1_UniqueTargets ==
  \A i, j \in 1..Len(FieldMappingsNow) :
    i # j => FieldMappingsNow[i].target # FieldMappingsNow[j].target

\* the rows a run over its captured rows, fields, mappings and registries yields,
\* computed in one pass: every row in import order, then the uniqueness pass
RunResult(run) ==
  UniquenessPass(ProcessRange(run, 0, Len(run.rows)).rows, run.fields)

\* the step resumes the suspended call run
Resumes(run) == lastCall'.op = "resumeChunked" /\ lastCall'.runId = run.runId

\* the resumed call run is current and its loop is over: this step is its last
Completes(run) ==
  /\ Resumes(run)
  /\ run.runId = processingRunId
  /\ run.start + run.batch >= Len(run.rows)

\* C2: once a newer call of processDataChunked has started, a step of an earlier
\* call that is still suspended writes nothing to the store; and the step in which
\* a call that started over an earlier one completes leaves processedData and
\* validationErrors equal to the result of that call over what it captured.
C2_NewerRunWins ==
  [][/\ \A run \in runs :
          /\ (Resumes(run) /\ \E newer \in runs : newer.runId > run.runId)
                => UNCHANGED RunOutputs
          /\ (Completes(run) /\ run.overlapped)
                => /\ processedData' = RunResult(run)
                   /\ validationErrors' = AllErrors(RunResult(run))
     /\ (lastCall'.op = "processDataChunked" /\ runs # {} /\ importedData.rows = <<>>)
          => processedData' = <<>> /\ validationErrors' = <<>>]_vars

\* C2 witness: a call completed its run while an earlier call was still suspended
C2_Witness ==
  /\ lastCall.op = "resumeChunked"
  /\ lastCall.runId = processingRunId
  /\ ~isLoading
  /\ processingProgress = <<1, 1>>
  /\ processedData # <<>>
  /\ \E earlier \in runs : earlier.runId < lastCall.runId

\* C3: a step of a suspended call whose captured run id differs from the counter
\* writes none of processedData, validationErrors, isLoading, processingProgress.
C3_StaleRunWritesNothing ==
  [][\A run \in runs :
       (Resumes(run) /\ run.runId # processingRunId) => UNCHANGED RunOutputs]_vars

\* C3 witness: a call resumed after cancelProcessing, the partial result it had
\* published still in the store
C3_Witness ==
  /\ lastCall.op = "resumeChunked"
  /\ lastCall.runId # processingRunId
  /\ ~isLoading
  /\ processingProgress = <<0, 1>>
  /\ processedData # <<>>

\* C4: a call of processDataChunked that is not superseded or cancelled and is no
\* longer suspended after a step has left the store with isLoading = false,
\* processingProgress = 1, one DataRow per imported row in import order (row-i at
\* position i) and validationErrors the concatenation of the rows' errors.
C4_RunEndsComplete ==
  [][(/\ lastCall'.op \in {"processDataChunked", "resumeChunked"}
      /\ lastCall'.runId = processingRunId'
      /\ \A run \in runs' : run.runId # lastCall'.runId)
       => LET rows == IF lastCall'.op = "processDataChunked" THEN importedData.rows
                      ELSE (CHOOSE run \in runs : run.runId = lastCall'.runId).rows
          IN /\ isLoading' = FALSE
             /\ processingProgress' = <<1, 1>>
             /\ Len(processedData') = Len(rows)
             /\ \A i \in 1..Len(rows) : processedData'[i].id = RowId(i - 1)
             /\ validationErrors' = AllErrors(processedData')]_vars

\* the result of the same run with a batch size equal to the number of rows: one
\* batch, then the final segment
SingleBatchResult(run) ==
  LET one == [run EXCEPT !.batch = Len(run.rows), !.start = 0, !.processed = <<>>]
      batch == Segment(one)
  IN Segment([one EXCEPT !.processed = batch.processed, !.start = Len(run.rows)]).processed

\* C5: the step in which a run with batch size B completes leaves processedData
\* and validationErrors equal to those of the same run with one batch of all rows.
C5_BatchSizeIrrelevant ==
  [][\A run \in runs :
       Completes(run) => /\ processedData' = SingleBatchResult(run)
                         /\ validationErrors' = AllErrors(SingleBatchResult(run))]_vars

\* C5 witness: a run over three rows in batches of two has completed
C5_Witness ==
  /\ lastCall.op = "resumeChunked"
  /\ lastCall.runId = processingRunId
  /\ config.chunkSize = 2
  /\ ~isLoading
  /\ processingProgress = <<1, 1>>
  /\ Len(processedData) = 3

\* C6: the (source, target) pairs with a non-null target of mappingState are the
\* (source, target) pairs of pipelineMappings.fieldMappings, in every reachable state.
C6_RepresentationsAgree ==
  {<<mappingState[i].source, mappingState[i].target>> :
     i \in {k \in 1..Len(mappingState) : mappingState[k].target # NULL}}
  = {<<FieldMappingsNow[i].source, FieldMappingsNow[i].target>> :
       i \in 1..Len(FieldMappingsNow)}

\* C7: after updateMapping(source, target) with a target, every other source that
\* pointed at target in mappingState is null, source is the only source mapped to
\* target in mappingState, and fieldMappings has exactly one entry with that
\* target, whose source is source.
C7_UpdateMappingExclusive ==
  [][\A src \in Sources, t \in Targets :
       lastCall' = CalledWith("updateMapping", src, t, <<>>, 0) =>
         /\ \A i \in 1..Len(mappingState) :
              (mappingState[i].source # src /\ mappingState[i].target = t) =>
                \E k \in 1..Len(mappingState') :
                  /\ mappingState'[k].source = mappingState[i].source
                  /\ mappingState'[k].target = NULL
         /\ \A k \in 1..Len(mappingState') :
              mappingState'[k].target = t <=> mappingState'[k].source = src
         /\ Cardinality({k \in 1..Len(pipelineMappings'.fieldMappings) :
                           pipelineMappings'.fieldMappings[k].target = t}) = 1
         /\ \A k \in 1..Len(pipelineMappings'.fieldMappings) :
              pipelineMappings'.fieldMappings[k].target = t =>
                pipelineMappings'.fieldMappings[k].source = src]_vars

\* C7 witness: updateMapping gave the target id to Name, and Id lost it
C7_Witness ==
  /\ lastCall = CalledWith("updateMapping", "Name", "id", <<>>, 0)
  /\ mappingState = <<[source |-> "Id", target |-> NULL],
                      [source |-> "Name", target |-> "id"]>>
  /\ Len(FieldMappingsNow) = 1

\* C8: after setFieldMappings(list), and at any other time, no two entries of
\* pipelineMappings.fieldMappings have the same source.
C8_OnePerSource ==
  \A i, j \in 1..Len(FieldMappingsNow) :
    i # j => FieldMappingsNow[i].source # FieldMappingsNow[j].source

\* the position of the last entry of list with the target t
LastWithTarget(list, t) ==
  CHOOSE i \in 1..Len(list) :
    list[i].target = t /\ \A j \in (i + 1)..Len(list) : list[j].target # t

\* C9: after setFieldMappings(list) the stored list has, for each non-empty target
\* of list, exactly one entry, equal to the last entry of list with that target,
\* and no other entry.
C9_LastOccurrenceWins ==
  lastCall.op = "setFieldMappings" =>
    LET list == lastCall.list
        targets == {list[i].target : i \in 1..Len(list)} \ {""}
    IN /\ \A t \in targets :
            /\ Cardinality({k \in 1..Len(FieldMappingsNow) :
                              FieldMappingsNow[k].target = t}) = 1
            /\ \E k \in 1..Len(FieldMappingsNow) :
                 FieldMappingsNow[k] = list[LastWithTarget(list, t)]
       /\ \A k \in 1..Len(FieldMappingsNow) : FieldMappingsNow[k].target \in targets

\* C9 witness: setFieldMappings was given two different entries for one target
C9_Witness ==
  /\ lastCall.op = "setFieldMappings"
  /\ Len(lastCall.list) = 2
  /\ lastCall.list[1].target = lastCall.list[2].target
  /\ lastCall.list[1].source # lastCall.list[2].source
  /\ lastCall.list[1].target # ""

MappingMutations ==
  {"setMapping", "updateMapping", "setFieldMappings", "setTransformRegistry",
   "generateAutoMapping"}

\* C10: a step of setMapping, updateMapping, setFieldMappings, setTransformRegistry
\* or generateAutoMapping leaves processedData and validationErrors empty,
\* isLoading false and processingProgress 0, and advances the run counter past the
\* run id of every suspended call.
C10_MutationInvalidates ==
  [][lastCall'.op \in MappingMutations =>
       /\ processedData' = <<>>
       /\ validationErrors' = <<>>
       /\ isLoading' = FALSE
       /\ processingProgress' = <<0, 1>>
       /\ processingRunId' > processingRunId
       /\ \A run \in runs' : run.runId < processingRunId']_vars

\* C10 witness: a mapping mutation while a call that had published rows is suspended
C10_Witness ==
  /\ lastCall.op \in MappingMutations
  /\ processedData = <<>>
  /\ \E run \in runs : run.processed # <<>> /\ run.runId = processingRunId - 1

\* the run a call of processDataChunked would capture in the state after the step
RunAfterStep ==
  [rows |-> importedData'.rows,
   fields |-> CurrentSheetConfig.fields,
   pipeline |-> pipelineMappings',
   mapping |-> mappingState',
   registry |-> EffectiveRegistry(transformRegistry'),
   vRegistry |-> validationRegistry']

\* C11: a mapping mutation performed while imported data is present triggers or
\* schedules a pass itself: after its step a call of processDataChunked with the
\* current run id is in flight, or processedData already holds the result of a
\* pass over the new mapping.
C11_MutationStartsPass ==
  [][(lastCall'.op \in MappingMutations /\ importedData.present /\ HasCurrentSheet)
       => \/ \E run \in runs' : run.runId = processingRunId'
          \/ processedData' = RunResult(RunAfterStep)]_vars

\* the step is taken by a call of processDataChunked whose run id is the counter
CurrentCallSteps ==
  /\ lastCall'.op \in {"processDataChunked", "resumeChunked"}
  /\ lastCall'.runId = processingRunId'

\* the step ends at the await after a published batch: the call is suspended again
CallPublishes == CurrentCallSteps /\ \E run \in runs' : run.runId = lastCall'.runId

\* the rows row-0 .. row-(k-1), in that order
IsPrefix(rows, k) ==
  Len(rows) = k /\ \A i \in 1..k : rows[i].id = RowId(i - 1)

\* C12: a batch published by a chunked run leaves processedData equal to the rows
\* row-0 .. row-(k-1) in import order, k one batch more than at the previous
\* publication (capped by the number of rows); a call is suspended only with a
\* whole number of batches built.
C12_PrefixPerBatch ==
  [][/\ \A run \in runs :
          (Resumes(run) /\ CallPublishes)
            => IsPrefix(processedData', Min2(Len(run.rows), Len(run.processed) + run.batch))
     /\ (lastCall'.op = "processDataChunked" /\ CallPublishes)
          => IsPrefix(processedData', Min2(Len(importedData.rows), Batch(config)))
     /\ \A run \in runs' :
          IsPrefix(run.processed, Min2(Len(run.rows), run.start + run.batch))]_vars

\* C12 witness: the second batch of one row was published, the call is suspended
C12_Witness ==
  /\ lastCall.op = "resumeChunked"
  /\ lastCall.runId = processingRunId
  /\ config.chunkSize = 1
  /\ Len(processedData) = 2
  /\ \E run \in runs : run.runId = processingRunId /\ run.processed = processedData

IsDuplicateError(e) == e.message = "unique"

NoDuplicateErrors(rows) ==
  \A i \in 1..Len(rows) : SelectSeq(rows[i].errors, IsDuplicateError) = <<>>

\* the rows other than i that hold the value of row i on the field
SharingRows(rows, i, fieldKey) ==
  {j \in 1..Len(rows) :
     /\ j # i
     /\ fieldKey \in DOMAIN rows[j].data
     /\ fieldKey \in DOMAIN rows[i].data
     /\ rows[j].data[fieldKey].s = rows[i].data[fieldKey].s}

\* the duplicate errors of row i for the field
DuplicateErrors(rows, i, fieldKey) ==
  LET Mine(e) == IsDuplicateError(e) /\ e.field = fieldKey
  IN SelectSeq(rows[i].errors, Mine)

\* C13: no suspended call has run the uniqueness pass and no batch it publishes
\* carries a duplicate-value error; when a call's last step has run the pass, every
\* row is there and no row has more duplicate errors on a field than other rows
\* share its value (the pass ran once).
C13_UniquenessPassLast ==
  [][/\ \A run \in runs' : NoDuplicateErrors(run.processed)
     /\ CallPublishes => NoDuplicateErrors(processedData')
     /\ \A run \in runs :
          (Completes(run) /\ ~NoDuplicateErrors(processedData'))
            => /\ Len(processedData') = Len(run.rows)
               /\ \A i \in 1..Len(processedData'), f \in Targets :
                    Len(DuplicateErrors(processedData', i, f))
                      <= Cardinality(SharingRows(processedData', i, f))]_vars

\* C13 witness: a batch with two rows that share the id 7 is published without a
\* duplicate error, the call is suspended
C13_Witness ==
  /\ lastCall.op = "processDataChunked"
  /\ isLoading
  /\ Len(processedData) = 2
  /\ SharingRows(processedData, 1, "id") = {2}
  /\ NoDuplicateErrors(processedData)
  /\ \E run \in runs : run.runId = processingRunId

\* the step is a call of processData that stores the result of its pass
PassStored ==
  /\ lastCall'.op = "processData"
  /\ importedData.present
  /\ HasCurrentSheet
  /\ ~SyncPass.threw

\* the row holds no value for the field: undefined, null or ""
HoldsNothing(row, fieldKey) ==
  fieldKey \notin DOMAIN row.data \/ IsEmptyVal(row.data[fieldKey])

\* C14: after a completed pass, for every unique field, every row whose non-empty
\* value is shared by another row carries a duplicate error for the field and is
\* invalid, and a row whose value is undefined, null or "" has no duplicate error
\* for it.
C14_DuplicatesFlagged ==
  [][PassStored =>
       \A fi \in 1..Len(CurrentSheetConfig.fields), i \in 1..Len(processedData') :
         LET f == CurrentSheetConfig.fields[fi]
         IN f.unique =>
              IF HoldsNothing(processedData'[i], f.key)
              THEN DuplicateErrors(processedData', i, f.key) = <<>>
              ELSE SharingRows(processedData', i, f.key) # {}
                     => /\ DuplicateErrors(processedData', i, f.key) # <<>>
                        /\ ~processedData'[i].isValid]_vars

\* C14 witness: a pass stored four rows; rows 0, 2 and 3 share the id 7, row 0 has
\* no other error, row 1 has the id ""
C14_Witness ==
  /\ lastCall.op = "processData"
  /\ Len(processedData) = 4
  /\ SharingRows(processedData, 1, "id") = {3, 4}
  /\ Len(processedData[1].errors) = Len(DuplicateErrors(processedData, 1, "id"))
  /\ DuplicateErrors(processedData, 1, "id") # <<>>
  /\ ~processedData[1].isValid
  /\ "id" \in DOMAIN processedData[2].data
  /\ HoldsNothing(processedData[2], "id")
  /\ DuplicateErrors(processedData, 2, "id") = <<>>

\* C15: every row of processedData is valid exactly when it has no error of
\* severity error.
C15_ValidIffNoError ==
  \A i \in 1..Len(processedData) :
    processedData[i].isValid <=> NoErrorSeverity(processedData[i].errors)

\* C16: every error of the row with the id row-N names the row N.
C16_ErrorNamesImportRow ==
  \A i \in 1..Len(processedData) :
    \A j \in 1..Len(processedData[i].errors) :
      processedData[i].id = RowId(processedData[i].errors[j].row)

\* the step is a call of updateRowData that stores its patched rows
EditStored ==
  /\ lastCall'.op = "updateRowData"
  /\ HasCurrentSheet
  /\ ~Patched(processedData, lastCall'.rowId, lastCall'.fieldKey, lastCall'.value,
              FieldErrors(lastCall'.value, lastCall'.fieldKey,
                          FindIndex(processedData, lastCall'.rowId),
                          CurrentSheetConfig.fields, validationRegistry)).threw

\* what an error says, without the row it names
Said(e) == [field |-> e.field, message |-> e.message, severity |-> e.severity]

SaidBy(errors) == [j \in 1..Len(errors) |-> Said(errors[j])]

\* the errors of the field, and the errors of the other fields
ErrorsOf(errors, fieldKey) ==
  LET Mine(e) == e.field = fieldKey IN SelectSeq(errors, Mine)

ErrorsNotOf(errors, fieldKey) ==
  LET Other(e) == e.field # fieldKey IN SelectSeq(errors, Other)

\* C17: updateRowData(rowId, fieldKey, value) changes the targeted cell only: the
\* other rows are unchanged; the row keeps its id, the data of its other fields
\* and the errors of its other fields; its errors for fieldKey are those of
\* validating the new value; isValid is recomputed from the errors.
C17_EditTouchesOneCell ==
  [][EditStored =>
       /\ Len(processedData') = Len(processedData)
       /\ \A i \in 1..Len(processedData) :
            LET old == processedData[i]
                new == processedData'[i]
                f == lastCall'.fieldKey
            IN IF old.id # lastCall'.rowId THEN new = old
               ELSE /\ new.id = old.id
                    /\ DOMAIN new.data = DOMAIN old.data \cup {f}
                    /\ \A k \in DOMAIN old.data \ {f} : new.data[k] = old.data[k]
                    /\ ErrorsNotOf(new.errors, f) = ErrorsNotOf(old.errors, f)
                    /\ SaidBy(ErrorsOf(new.errors, f))
                         = SaidBy(FieldErrors(lastCall'.value, f, 0,
                                              CurrentSheetConfig.fields,
                                              validationRegistry).errors)
                    /\ new.isValid = NoErrorSeverity(new.errors)]_vars

\* C17 witness: an edit of the id of row-1 turned its id error over and kept the
\* error of its other field
C17_Witness ==
  /\ lastCall.op = "updateRowData"
  /\ lastCall.fieldKey = "id"
  /\ \E i \in 1..Len(processedData) :
       /\ processedData[i].id = lastCall.rowId
       /\ processedData[i].data["id"] = lastCall.value
       /\ ErrorsNotOf(processedData[i].errors, "id") # <<>>
       /\ ErrorsOf(processedData[i].errors, "id") # <<>>

\* C18: updateRowData stores the raw value coerced to the type of the field:
\* data[fieldKey] is transformValue(value, field.type).
C18_EditCoerces ==
  [][(EditStored /\ FindField(CurrentSheetConfig.fields, lastCall'.fieldKey) # 0)
       => \A i \in 1..Len(processedData') :
            processedData'[i].id = lastCall'.rowId
              => processedData'[i].data[lastCall'.fieldKey]
                   = transformValue(
                       lastCall'.value,
                       CurrentSheetConfig.fields[
                         FindField(CurrentSheetConfig.fields, lastCall'.fieldKey)].type)]_vars

\* C19: updateRowData does not run the uniqueness pass: no row gains a duplicate
\* error, and every other row keeps its duplicate errors and its isValid, also
\* when its value is no longer shared.
C19_EditSkipsUniqueness ==
  [][EditStored =>
       \A i \in 1..Len(processedData), f \in Targets :
         /\ Len(DuplicateErrors(processedData', i, f)) <= Len(DuplicateErrors(processedData, i, f))
         /\ processedData[i].id # lastCall'.rowId
              => /\ DuplicateErrors(processedData', i, f) = DuplicateErrors(processedData, i, f)
                 /\ processedData'[i].isValid = processedData[i].isValid]_vars

\* C19 witness: after the edit one row is invalid with a duplicate error on an id
\* that no other row holds, and another row is an unflagged duplicate
C19_Witness ==
  /\ lastCall.op = "updateRowData"
  /\ lastCall.fieldKey = "id"
  /\ \E i, j \in 1..Len(processedData) :
       /\ processedData[i].id # lastCall.rowId
       /\ DuplicateErrors(processedData, i, "id") # <<>>
       /\ ~processedData[i].isValid
       /\ SharingRows(processedData, i, "id") = {}
       /\ processedData[j].id = lastCall.rowId
       /\ DuplicateErrors(processedData, j, "id") = <<>>

\* C20: for every row built by a pass and every required field whose stored value
\* is empty, the row has exactly one error for the field, the required error.
C20_RequiredErrorOnly ==
  [][PassStored =>
       \A fi \in 1..Len(CurrentSheetConfig.fields), i \in 1..Len(processedData') :
         LET f == CurrentSheetConfig.fields[fi]
             row == processedData'[i]
         IN (f.required /\ f.key \in DOMAIN row.data /\ IsEmptyVal(row.data[f.key]))
              => /\ Len(ErrorsOf(row.errors, f.key)) = 1
                 /\ ErrorsOf(row.errors, f.key)[1].message = "required"]_vars

\* C29: when pollResult answers done with an error the call stops polling and
\* rejects with the job's error; when it answers done without an error the call
\* resolves with the rows; after any other answer, a failed call of pollResult
\* included, it polls again after the delay.
C29_JobErrorRejects ==
  [][(offload.pc = "pollResult" /\ offload' # offload)
       => CASE offload'.answer = "doneWithError" ->
                 offload'.pc = "rejected" /\ offload'.outcome = "job error"
            [] offload'.answer = "doneWithRows" ->
                 offload'.pc = "resolved" /\ offload'.outcome = "rows"
            [] OTHER -> offload'.pc = "delay"]_vars

\* the call run captured an import or a sheet that is no longer the current one
Outdated(run) ==
  \/ ~importedData.present
  \/ importedData.rows # run.rows
  \/ ~HasCurrentSheet
  \/ (HasCurrentSheet /\ CurrentSheetConfig.fields # run.fields)

\* C25: a suspended call of processDataChunked whose import or sheet has been
\* replaced or cleared writes nothing further to the store.
C25_ReplacedImportStopsRun ==
  [][\A run \in runs :
       (Resumes(run) /\ Outdated(run)) => UNCHANGED RunOutputs]_vars

\* C26: a call on another store never aborts a run of this store: every call of
\* this store that is suspended with the current run id still has it afterwards.
C26_StoresIndependent ==
  [][lastCall'.op = "otherStore"
       => \A run \in runs : run.runId = processingRunId => run.runId = processingRunId']_vars

\* C27: whenever isLoading is false, validationErrors is the concatenation, in
\* row order, of the errors of the rows of processedData.
C27_ErrorsMatchRows ==
  ~isLoading => validationErrors = AllErrors(processedData)

\* the step of a call with the current run id in which a validator throws
ValidatorThrows ==
  /\ CurrentCallSteps
  /\ \/ lastCall'.op = "processDataChunked" /\ Segment(NewRun).kind = "threw"
     \/ \E run \in runs :
          /\ Resumes(run)
          /\ Segment([run EXCEPT !.start = run.start + run.batch]).kind = "threw"

\* C28: when a custom validator throws while a call of processDataChunked builds
\* a row, the call goes on: after the step it is suspended at its next await, or
\* it has ended with isLoading = false and every row in processedData.
C28_ThrowConfinedToCell ==
  [][ValidatorThrows
       => \/ \E run \in runs' : run.runId = lastCall'.runId
          \/ /\ isLoading' = FALSE
             /\ Len(processedData') = Len(importedData.rows)]_vars

\* C24: setImportedData on a sheet with seeded pipelineMappings stores
\* fieldMappings made of seeded entries only, each with a source among the headers
\* of the file and a non-empty target, no target twice and no qualifying target
\* lost, and a mappingState derived from exactly that list.
C24_SeedFiltered ==
  [][(/\ lastCall'.op = "setImportedData"
      /\ HasCurrentSheet
      /\ CurrentSheetConfig.pipelineMappings.defined)
       => LET seed == CurrentSheetConfig.pipelineMappings.fieldMappings
              fm == pipelineMappings'.fieldMappings
              headers == SeqToSet(importedData'.headers)
          IN /\ pipelineMappings'.defined
             /\ \A i \in 1..Len(fm) :
                  /\ fm[i] \in SeqToSet(seed)
                  /\ fm[i].source \in headers
                  /\ Truthy(fm[i].target)
                  /\ \A j \in 1..Len(fm) : fm[j].target = fm[i].target => j = i
             /\ \A j \in 1..Len(seed) :
                  (seed[j].source \in headers /\ Truthy(seed[j].target))
                    => \E i \in 1..Len(fm) : fm[i].target = seed[j].target
             /\ mappingState' = fieldMappingsToMappingState(fm)]_vars

\* C24 witness: a file with the headers Id and Name was imported on the seeded
\* sheet; of the four seeded entries the one for Id is left
C24_Witness ==
  /\ lastCall.op = "setImportedData"
  /\ HasCurrentSheet
  /\ Len(CurrentSheetConfig.pipelineMappings.fieldMappings) = 4
  /\ importedData.headers = <<"Id", "Name">>
  /\ pipelineMappings.fieldMappings = <<MkMapping("Id", "id", NoTransform)>>
  /\ mappingState = <<[source |-> "Id", target |-> "id"]>>

\* the step computes an auto-mapping: the store action generateAutoMapping, or
\* setImportedData on a sheet without seeded mappings
AutoMappingStep ==
  \/ lastCall'.op = "generateAutoMapping"
  \/ /\ lastCall'.op = "setImportedData"
     /\ HasCurrentSheet
     /\ ~CurrentSheetConfig.pipelineMappings.defined

\* calculateSimilarity(header.toLowerCase(), name.toLowerCase())
Similarity(header, name) ==
  calculateSimilarity(ToLower(NameChars(header)), ToLower(NameChars(name)))

\* C21: the candidate score of every (header, field) pair of an auto-mapping is
\* the greater of the similarity of the header to the field's label and its
\* similarity to the field's key.
C21_ScoreIsGreater ==
  [][AutoMappingStep =>
       \A i \in 1..Len(importedData'.headers), j \in 1..Len(CurrentSheetConfig.fields) :
         LET header == importedData'.headers[i]
             field == CurrentSheetConfig.fields[j]
         IN /\ ~FracGt(Similarity(header, field.label), Confidence(header, field))
            /\ ~FracGt(Similarity(header, field.key), Confidence(header, field))]_vars

\* all qualifying (header, field) pairs, headers in file order and fields in sheet
\* order, sorted by score descending (stable: ties stay in header order)
RankedPairs(headers, fields, threshold) ==
  LET Qualifies(c) == FracGt(c.rank, threshold)
      PairsOf(i) ==
        SelectSeq([j \in 1..Len(fields) |->
                     [header |-> headers[i], key |-> fields[j].key,
                      rank |-> Confidence(headers[i], fields[j])]],
                  Qualifies)
  IN SortDesc(Flatten([i \in 1..Len(headers) |-> PairsOf(i)]))

\* the pairs taken in that order, skipping a pair whose header or field is taken
RECURSIVE GreedyOverPairs(_, _)
GreedyOverPairs(pairs, taken) ==
  IF pairs = <<>> THEN taken
  ELSE LET p == Head(pairs) IN
       IF \E a \in taken : a.header = p.header \/ a.key = p.key
       THEN GreedyOverPairs(Tail(pairs), taken)
       ELSE GreedyOverPairs(Tail(pairs), taken \cup {[header |-> p.header, key |-> p.key]})

\* the assignment by global rank: the field of each header, NULL when it has none
GlobalAssignment(headers, fields, threshold) ==
  LET taken == GreedyOverPairs(RankedPairs(headers, fields, threshold), {})
  IN [h \in SeqToSet(headers) |->
        IF \E a \in taken : a.header = h
        THEN (CHOOSE a \in taken : a.header = h).key ELSE NULL]

\* C22: an auto-mapping gives every header the field it gets when all qualifying
\* (header, field) pairs are ranked by score descending, ties in header order, and
\* taken greedily, skipping pairs whose field or header is already assigned.
C22_GlobalRankAssignment ==
  [][AutoMappingStep =>
       \A i \in 1..Len(mappingState') :
         mappingState'[i].target =
           GlobalAssignment(importedData'.headers, CurrentSheetConfig.fields,
                            CurrentSheetConfig.threshold)[mappingState'[i].source]]_vars

\* the fields that qualify for the header: score above the threshold
QualifyingKeys(header, fields, threshold) ==
  {fields[j].key : j \in {k \in 1..Len(fields) :
                            FracGt(Confidence(header, fields[k]), threshold)}}

\* C23: the result of an auto-mapping has every header of the file as a key and
\* no field as the value of two headers; a header has a field that qualifies for
\* it, or null when every field that qualifies for it is the value of another
\* header (all null when the sheet has no fields).
C23_OneToOne ==
  [][AutoMappingStep =>
       LET m == mappingState'
           fields == CurrentSheetConfig.fields
           Given == {m[k].target : k \in 1..Len(m)} \ {NULL}
       IN /\ {m[k].source : k \in 1..Len(m)} = SeqToSet(importedData'.headers)
          /\ \A a, b \in 1..Len(m) :
               (m[a].target = m[b].target /\ m[a].target # NULL) => a = b
          /\ \A k \in 1..Len(m) :
               LET qualifying == QualifyingKeys(m[k].source, fields,
                                                CurrentSheetConfig.threshold)
               IN IF m[k].target = NULL THEN qualifying \subseteq Given
                  ELSE m[k].target \in qualifying
          /\ fields = <<>> => Given = {}]_vars

\* C23 witness: an auto-mapping left a header null whose only qualifying field
\* went to another header
C23_Witness ==
  /\ lastCall.op = "generateAutoMapping"
  /\ HasCurrentSheet
  /\ \E k \in 1..Len(mappingState) :
       /\ mappingState[k].target = NULL
       /\ QualifyingKeys(mappingState[k].source, CurrentSheetConfig.fields,
                         CurrentSheetConfig.threshold) # {}
  /\ \E k \in 1..Len(mappingState) : mappingState[k].target # NULL

\* C30: after a pass, a row whose raw cell for a mapped boolean field is not
\* empty and is, in lower case, none of true, false, 1, 0, yes, no carries the
\* 'must be a valid boolean value' error for the field.
C30_BooleanTypeChecked ==
  [][PassStored =>
       \A i \in 1..Len(processedData'), n \in 1..Len(pipelineMappings.fieldMappings) :
         LET m == pipelineMappings.fieldMappings[n]
             fi == FindField(CurrentSheetConfig.fields, m.target)
             row == importedData.rows[i]
         IN (/\ fi # 0
             /\ CurrentSheetConfig.fields[fi].type = "boolean"
             /\ m.source \in DOMAIN row
             /\ ~IsEmptyVal(row[m.source])
             /\ ToLower(row[m.source].s) \notin BooleanWords)
              => \E e \in SeqToSet(processedData'[i].errors) :
                   e.field = m.target /\ e.message = "boolean"]_vars

====
